---- MODULE Spec2Model ----
(***************************************************************************)
(* Model of fdbserver/LogSystemConfig.h: OptionalInterface, TLogSet,       *)
(* OldTLogConf and LogSystemConfig, their equality / identity / lineage    *)
(* predicates, the two enumerations and serialize().                       *)
(*                                                                         *)
(* Spec   : the LogSystemConfig objects n and r are default-constructed    *)
(*          and then filled through their public members; the const        *)
(*          member functions are called as n.f(r) and leave their result   *)
(*          in ret.                                                        *)
(* SpecEq : the same construction for three objects n, r and q, compared   *)
(*          with operator==.                                               *)
(* SpecOI : one OptionalInterface<TLogInterface> object and one archive;   *)
(*          the constructors and serialize() (writing and reading).        *)
(***************************************************************************)
EXTENDS Integers, Sequences, FiniteSets, TLC

VARIABLES cfg, steps, ret, oi, ar

vars == <<cfg, steps, ret, oi, ar>>

\* ----------------------------------------------------------------- bounds

\* construction steps applied to the three configurations
MaxSteps == 3
\* OptionalInterface objects held by the archive at one time
MaxArchive == 2

\* ------------------------------------------------------------ value domains

\* UID(): the identifier a default-constructed OptionalInterface holds
NilUID == 0
UIDs == {1, 2}
Tokens == {1, 2}
Addresses == {1, 2}
Infos == {"policyA", "policyB"}
\* LocalityData(): no key set
LocalityData_Default == "unset"
Localities == {"dc0"}
Versions == {0, 1}

HasBestPolicyNone == 0
HasBestPolicyId == 1
LocalityUnset == -99

\* TLogInterface: id(), commit.getEndpoint().token, getSharedTLogID(), address()
TLogInterfaces ==
    [uniqueID : UIDs, token : Tokens, sharedTLogID : UIDs, address : Addresses]

TLogInterface_id(i) == i.uniqueID
commitToken(i) == i.token
getSharedTLogID(i) == i.sharedTLogID
address(i) == i.address

\* Optional<T>: <<>> is the empty Optional, <<v>> holds v
Optional_present(o) == o # <<>>
Optional_get(o) == o[1]

\* ------------------------------------------------------- OptionalInterface

id(o) == o.ident
present(o) == Optional_present(o.iface)
interf(o) == Optional_get(o.iface)

OptionalInterface_FromUID(u) == [ident |-> u, iface |-> <<>>]
OptionalInterface_FromInterface(i) == [ident |-> TLogInterface_id(i), iface |-> <<i>>]
OptionalInterface_Default == [ident |-> NilUID, iface |-> <<>>]

OptionalInterfaces ==
    {OptionalInterface_FromUID(u) : u \in UIDs}
        \cup {OptionalInterface_FromInterface(i) : i \in TLogInterfaces}

\* serialize() on a writing archive a: ar & iface; if absent, ar & ident
\* (ident is stored again from iface when it is present)
\* An archive entry is <<member name, value>>.
OptionalInterface_serializeWrite(o, a) ==
    LET a1 == Append(a, <<"iface", o.iface>>)
    IN  IF ~Optional_present(o.iface)
        THEN [obj |-> o, arch |-> Append(a1, <<"ident", o.ident>>)]
        ELSE [obj |-> [o EXCEPT !.ident = TLogInterface_id(Optional_get(o.iface))],
              arch |-> a1]

\* mutant: the reader never stores the decoded interface's id in ident
OptionalInterface_serializeRead_KeepIdent(o, a) ==
    LET o1 == [o EXCEPT !.iface = Head(a)[2]]
        a1 == Tail(a)
    IN  IF ~Optional_present(o1.iface)
        THEN [obj |-> [o1 EXCEPT !.ident = Head(a1)[2]], arch |-> Tail(a1)]
        ELSE [obj |-> o1, arch |-> a1]

\* serialize() on a reading archive a: iface is read; ident is read only when
\* iface came out absent, else it is taken from the interface
OptionalInterface_serializeRead(o, a) ==
    LET o1 == [o EXCEPT !.iface = Head(a)[2]]
        a1 == Tail(a)
    IN  IF ~Optional_present(o1.iface)
        THEN [obj |-> [o1 EXCEPT !.ident = Head(a1)[2]], arch |-> Tail(a1)]
        ELSE [obj |-> [o1 EXCEPT !.ident = TLogInterface_id(Optional_get(o1.iface))],
              arch |-> a1]

\* ----------------------------------------------------------------- TLogSet

TLogSet_Default ==
    [tLogs |-> <<>>, logRouters |-> <<>>,
     tLogWriteAntiQuorum |-> 0, tLogReplicationFactor |-> 0,
     tLogLocalities |-> <<>>, tLogPolicy |-> <<>>,
     locality |-> LocalityUnset, isLocal |-> TRUE,
     hasBestPolicy |-> HasBestPolicyId]

\* IRepPolicyRef: <<>> is the null reference, <<s>> a policy whose info() is s
hasPolicy(g) == g.tLogPolicy # <<>>
info(p) == p[1]

TLogSet_scalarsDiffer(l, rhs) ==
    \/ l.tLogWriteAntiQuorum # rhs.tLogWriteAntiQuorum
    \/ l.tLogReplicationFactor # rhs.tLogReplicationFactor
    \/ l.isLocal # rhs.isLocal
    \/ l.hasBestPolicy # rhs.hasBestPolicy
    \/ Len(l.tLogs) # Len(rhs.tLogs)
    \/ l.locality # rhs.locality

\* mutant: a null policy on the left is never compared with the right
TLogSet_policyDiffers_OneSided(l, rhs) ==
    \/ (hasPolicy(l) /\ ~hasPolicy(rhs))
    \/ (hasPolicy(l) /\ info(l.tLogPolicy) # info(rhs.tLogPolicy))

TLogSet_policyDiffers(l, rhs) ==
    \/ (hasPolicy(l) /\ ~hasPolicy(rhs))
    \/ (~hasPolicy(l) /\ hasPolicy(rhs))
    \/ (hasPolicy(l) /\ info(l.tLogPolicy) # info(rhs.tLogPolicy))

\* mutant: operator== also compares the log routers
TLogSet_Eq_Routers(l, rhs) ==
    IF TLogSet_scalarsDiffer(l, rhs) \/ l.logRouters # rhs.logRouters THEN FALSE
    ELSE IF TLogSet_policyDiffers(l, rhs) THEN FALSE
    ELSE \A j \in 1..Len(l.tLogs) :
            ~ \/ id(l.tLogs[j]) # id(rhs.tLogs[j])
              \/ present(l.tLogs[j]) # present(rhs.tLogs[j])
              \/ /\ present(l.tLogs[j])
                 /\ commitToken(interf(l.tLogs[j])) # commitToken(interf(rhs.tLogs[j]))

\* TLogSet::operator==
TLogSet_Eq(l, rhs) ==
    IF TLogSet_scalarsDiffer(l, rhs) THEN FALSE
    ELSE IF TLogSet_policyDiffers(l, rhs) THEN FALSE
    ELSE \A j \in 1..Len(l.tLogs) :
            ~ \/ id(l.tLogs[j]) # id(rhs.tLogs[j])
              \/ present(l.tLogs[j]) # present(rhs.tLogs[j])
              \/ /\ present(l.tLogs[j])
                 /\ commitToken(interf(l.tLogs[j])) # commitToken(interf(rhs.tLogs[j]))

\* mutant: isEqualIds also compares the number of log routers
TLogSet_isEqualIds_Routers(l, r) ==
    IF TLogSet_scalarsDiffer(l, r) \/ Len(l.logRouters) # Len(r.logRouters) THEN FALSE
    ELSE IF TLogSet_policyDiffers(l, r) THEN FALSE
    ELSE \A i \in 1..Len(l.tLogs) : ~(id(l.tLogs[i]) # id(r.tLogs[i]))

\* TLogSet::isEqualIds
TLogSet_isEqualIds(l, r) ==
    IF TLogSet_scalarsDiffer(l, r) THEN FALSE
    ELSE IF TLogSet_policyDiffers(l, r) THEN FALSE
    ELSE \A i \in 1..Len(l.tLogs) : ~(id(l.tLogs[i]) # id(r.tLogs[i]))

\* std::vector<TLogSet>::operator==
TLogSetVector_Eq(v, w) ==
    Len(v) = Len(w) /\ \A i \in 1..Len(v) : TLogSet_Eq(v[i], w[i])

\* ------------------------------------------------------------- OldTLogConf

OldTLogConf_Default == [tLogs |-> <<>>, epochEnd |-> 0]

OldTLogConf_Eq(l, rhs) ==
    TLogSetVector_Eq(l.tLogs, rhs.tLogs) /\ l.epochEnd = rhs.epochEnd

OldTLogConf_isEqualIds(l, r) ==
    IF Len(l.tLogs) # Len(r.tLogs) THEN FALSE
    ELSE \A i \in 1..Len(l.tLogs) : ~(~TLogSet_isEqualIds(l.tLogs[i], r.tLogs[i]))

\* std::vector<OldTLogConf>::operator==
OldTLogConfVector_Eq(v, w) ==
    Len(v) = Len(w) /\ \A i \in 1..Len(v) : OldTLogConf_Eq(v[i], w[i])

\* --------------------------------------------------------- LogSystemConfig

LogSystemConfig_Default ==
    [logSystemType |-> 0, tLogs |-> <<>>, oldTLogs |-> <<>>,
     expectedLogSets |-> 0, minRouters |-> 0]

isEqual(l, r) ==
    /\ l.logSystemType = r.logSystemType
    /\ TLogSetVector_Eq(l.tLogs, r.tLogs)
    /\ OldTLogConfVector_Eq(l.oldTLogs, r.oldTLogs)
    /\ l.minRouters = r.minRouters
    /\ l.expectedLogSets = r.expectedLogSets

LogSystemConfig_Eq(l, rhs) == isEqual(l, rhs)

\* mutant: configurations of different logSystemType never match
isEqualIds_SameType(l, r) ==
    /\ l.logSystemType = r.logSystemType
    /\ \E i \in 1..Len(r.tLogs) : \E j \in 1..Len(l.tLogs) :
            TLogSet_isEqualIds(r.tLogs[i], l.tLogs[j])

isEqualIds(l, r) ==
    \E i \in 1..Len(r.tLogs) : \E j \in 1..Len(l.tLogs) :
        TLogSet_isEqualIds(r.tLogs[i], l.tLogs[j])

\* mutant: every old generation is searched, not only oldTLogs[0]
isNextGenerationOf_AnyOld(l, r) ==
    IF Len(l.oldTLogs) = 0 THEN FALSE
    ELSE \E h \in 1..Len(l.oldTLogs) :
            \E i \in 1..Len(r.tLogs) : \E j \in 1..Len(l.oldTLogs[h].tLogs) :
                TLogSet_isEqualIds(r.tLogs[i], l.oldTLogs[h].tLogs[j])

\* mutant: the oldest generation, oldTLogs.back(), is searched
isNextGenerationOf_Back(l, r) ==
    IF Len(l.oldTLogs) = 0 THEN FALSE
    ELSE \E i \in 1..Len(r.tLogs) :
            \E j \in 1..Len(l.oldTLogs[Len(l.oldTLogs)].tLogs) :
                TLogSet_isEqualIds(r.tLogs[i], l.oldTLogs[Len(l.oldTLogs)].tLogs[j])

isNextGenerationOf(l, r) ==
    IF Len(l.oldTLogs) = 0 THEN FALSE
    ELSE \E i \in 1..Len(r.tLogs) : \E j \in 1..Len(l.oldTLogs[1].tLogs) :
            TLogSet_isEqualIds(r.tLogs[i], l.oldTLogs[1].tLogs[j])

\* allPresentLogs(): inner loop over one TLogSet's tLogs
RECURSIVE presentInterfaces(_)
presentInterfaces(s) ==
    IF s = <<>> THEN <<>>
    ELSE (IF present(Head(s)) THEN <<interf(Head(s))>> ELSE <<>>)
             \o presentInterfaces(Tail(s))

\* allPresentLogs(): outer loop over a vector of TLogSet
RECURSIVE presentInterfacesOfSets(_)
presentInterfacesOfSets(v) ==
    IF v = <<>> THEN <<>>
    ELSE presentInterfaces(Head(v).tLogs) \o presentInterfacesOfSets(Tail(v))

\* mutant helper: the present log routers of a vector of TLogSet
RECURSIVE presentRoutersOfSets(_)
presentRoutersOfSets(v) ==
    IF v = <<>> THEN <<>>
    ELSE presentInterfaces(Head(v).logRouters) \o presentRoutersOfSets(Tail(v))

\* mutant: the log routers are listed after the log servers
allPresentLogs_WithRouters(c) ==
    presentInterfacesOfSets(c.tLogs) \o presentRoutersOfSets(c.tLogs)

allPresentLogs(c) == presentInterfacesOfSets(c.tLogs)

IdAddrPair(i) == <<getSharedTLogID(i), address(i)>>

\* the push_back loops of allSharedLogs() over a vector of TLogSet
sharedPairsOfSets(v) ==
    LET p == presentInterfacesOfSets(v)
    IN  [k \in 1..Len(p) |-> IdAddrPair(p[k])]

\* the push_back loop of allSharedLogs() over oldTLogs
RECURSIVE sharedPairsOfOld(_)
sharedPairsOfOld(h) ==
    IF h = <<>> THEN <<>>
    ELSE sharedPairsOfSets(Head(h).tLogs) \o sharedPairsOfOld(Tail(h))

\* std::pair<UID, NetworkAddress>::operator<
IdAddrPair_Less(x, y) == x[1] < y[1] \/ (x[1] = y[1] /\ x[2] < y[2])

RECURSIVE sortedSeqOf(_)
sortedSeqOf(S) ==
    IF S = {} THEN <<>>
    ELSE LET m == CHOOSE e \in S : \A y \in S : e = y \/ IdAddrPair_Less(e, y)
         IN  <<m>> \o sortedSeqOf(S \ {m})

\* uniquify(): sort, then erase the repeated elements
uniquify(s) == sortedSeqOf({s[k] : k \in 1..Len(s)})

\* std::unique(begin, end, first-equal) == end
uniqueByFirstIsEnd(s) == ~ \E k \in 1..(Len(s) - 1) : s[k][1] = s[k + 1][1]

\* ASSERT_WE_THINK(condition): evaluated only in a build that validates such
\* assertions (validating); a failed assertion throws
ASSERT_WE_THINK_throws(validating, condition) == validating /\ ~condition

\* mutant: the loop over oldTLogs is missing
allSharedLogs_LiveOnly(c, validating) ==
    LET results == uniquify(sharedPairsOfSets(c.tLogs))
    IN  IF ASSERT_WE_THINK_throws(validating, uniqueByFirstIsEnd(results))
        THEN [threw |-> TRUE, val |-> <<>>]
        ELSE [threw |-> FALSE, val |-> results]

allSharedLogs(c, validating) ==
    LET results == uniquify(sharedPairsOfSets(c.tLogs) \o sharedPairsOfOld(c.oldTLogs))
    IN  IF ASSERT_WE_THINK_throws(validating, uniqueByFirstIsEnd(results))
        THEN [threw |-> TRUE, val |-> <<>>]
        ELSE [threw |-> FALSE, val |-> results]

\* ---------------------------------------------------------------- serialize
\* An archive is the sequence of the members streamed into it, each entry
\* <<member name, encoded value>>; a vector is the sequence of its elements'
\* encodings.

OptionalInterfaceVector_serialize(v) ==
    [k \in 1..Len(v) |-> OptionalInterface_serializeWrite(v[k], <<>>).arch]

\* mutant: the members are streamed in their declaration order
TLogSet_serialize_DeclOrder(g) ==
    << <<"tLogs", OptionalInterfaceVector_serialize(g.tLogs)>>,
       <<"logRouters", OptionalInterfaceVector_serialize(g.logRouters)>>,
       <<"tLogWriteAntiQuorum", g.tLogWriteAntiQuorum>>,
       <<"tLogReplicationFactor", g.tLogReplicationFactor>>,
       <<"tLogLocalities", g.tLogLocalities>>,
       <<"tLogPolicy", g.tLogPolicy>>,
       <<"locality", g.locality>>,
       <<"isLocal", g.isLocal>>,
       <<"hasBestPolicy", g.hasBestPolicy>> >>

TLogSet_serialize(g) ==
    << <<"tLogs", OptionalInterfaceVector_serialize(g.tLogs)>>,
       <<"logRouters", OptionalInterfaceVector_serialize(g.logRouters)>>,
       <<"tLogWriteAntiQuorum", g.tLogWriteAntiQuorum>>,
       <<"tLogReplicationFactor", g.tLogReplicationFactor>>,
       <<"tLogPolicy", g.tLogPolicy>>,
       <<"tLogLocalities", g.tLogLocalities>>,
       <<"isLocal", g.isLocal>>,
       <<"hasBestPolicy", g.hasBestPolicy>>,
       <<"locality", g.locality>> >>

TLogSetVector_serialize(v) == [k \in 1..Len(v) |-> TLogSet_serialize(v[k])]

OldTLogConf_serialize(o) ==
    << <<"tLogs", TLogSetVector_serialize(o.tLogs)>>,
       <<"epochEnd", o.epochEnd>> >>

LogSystemConfig_serialize(c) ==
    << <<"logSystemType", c.logSystemType>>,
       <<"tLogs", TLogSetVector_serialize(c.tLogs)>>,
       <<"oldTLogs", [k \in 1..Len(c.oldTLogs) |-> OldTLogConf_serialize(c.oldTLogs[k])]>>,
       <<"minRouters", c.minRouters>>,
       <<"expectedLogSets", c.expectedLogSets>> >>

\* ------------------------------------------------------------------- state

Cfgs == {"n", "r", "q"}

NoCall == [op |-> "none"]

Init ==
    /\ cfg = [x \in Cfgs |-> LogSystemConfig_Default]
    /\ steps = 0
    /\ ret = NoCall
    /\ oi = OptionalInterface_Default
    /\ ar = <<>>

\* where a TLogSet sits in a configuration: <<0, i>> is tLogs[i],
\* <<h, i>> is oldTLogs[h].tLogs[i]
Locs(c) ==
    {<<0, i>> : i \in 1..Len(c.tLogs)}
        \cup UNION {{<<h, i>> : i \in 1..Len(c.oldTLogs[h].tLogs)} : h \in 1..Len(c.oldTLogs)}

SetAt(c, loc) ==
    IF loc[1] = 0 THEN c.tLogs[loc[2]] ELSE c.oldTLogs[loc[1]].tLogs[loc[2]]

PutAt(c, loc, g) ==
    IF loc[1] = 0 THEN [c EXCEPT !.tLogs[loc[2]] = g]
    ELSE [c EXCEPT !.oldTLogs[loc[1]].tLogs[loc[2]] = g]

\* one construction step: configuration x becomes c
Store(x, c) ==
    /\ steps < MaxSteps
    /\ ret = NoCall
    /\ c # cfg[x]
    /\ cfg' = [cfg EXCEPT ![x] = c]
    /\ steps' = steps + 1
    /\ UNCHANGED <<ret, oi, ar>>

StoreSet(x, loc, g) == Store(x, PutAt(cfg[x], loc, g))

\* ------------------------------------------- construction of configurations

SetLogSystemType(x, v) == Store(x, [cfg[x] EXCEPT !.logSystemType = v])
SetMinRouters(x, v) == Store(x, [cfg[x] EXCEPT !.minRouters = v])
SetExpectedLogSets(x, v) == Store(x, [cfg[x] EXCEPT !.expectedLogSets = v])

\* tLogs.push_back(TLogSet())
PushTLogSet(x) == Store(x, [cfg[x] EXCEPT !.tLogs = Append(@, TLogSet_Default)])

\* x = y
CopyConfig(x, y) == Store(x, cfg[y])

\* recovery: y's live generation is retired into oldTLogs[0] of its successor x
RetireGeneration(x, y, e) ==
    Store(x, [cfg[y] EXCEPT
                 !.tLogs = <<>>,
                 !.oldTLogs = <<[OldTLogConf_Default EXCEPT
                                    !.tLogs = cfg[y].tLogs, !.epochEnd = e]>> \o @])

SetAntiQuorum(x, loc, v) ==
    StoreSet(x, loc, [SetAt(cfg[x], loc) EXCEPT !.tLogWriteAntiQuorum = v])
SetReplicationFactor(x, loc, v) ==
    StoreSet(x, loc, [SetAt(cfg[x], loc) EXCEPT !.tLogReplicationFactor = v])
SetIsLocal(x, loc, v) ==
    StoreSet(x, loc, [SetAt(cfg[x], loc) EXCEPT !.isLocal = v])
SetHasBestPolicy(x, loc, v) ==
    StoreSet(x, loc, [SetAt(cfg[x], loc) EXCEPT !.hasBestPolicy = v])
SetLocality(x, loc, v) ==
    StoreSet(x, loc, [SetAt(cfg[x], loc) EXCEPT !.locality = v])
SetPolicy(x, loc, p) ==
    StoreSet(x, loc, [SetAt(cfg[x], loc) EXCEPT !.tLogPolicy = <<p>>])

\* tLogs.push_back(o) together with tLogLocalities.push_back(LocalityData())
PushTLog(x, loc, o) ==
    StoreSet(x, loc, [SetAt(cfg[x], loc) EXCEPT
                         !.tLogs = Append(@, o),
                         !.tLogLocalities = Append(@, LocalityData_Default)])
\* tLogLocalities[j] = l
SetTLogLocality(x, loc, j, l) ==
    StoreSet(x, loc, [SetAt(cfg[x], loc) EXCEPT !.tLogLocalities[j] = l])
PushLogRouter(x, loc, o) ==
    StoreSet(x, loc, [SetAt(cfg[x], loc) EXCEPT !.logRouters = Append(@, o)])

Build(X) ==
    \/ \E x \in X, v \in {0, 1} : SetLogSystemType(x, v)
    \/ \E x \in X, v \in {0, 1} : SetMinRouters(x, v)
    \/ \E x \in X, v \in {0, 1} : SetExpectedLogSets(x, v)
    \/ \E x \in X : PushTLogSet(x)
    \/ \E x \in X, y \in X : x # y /\ CopyConfig(x, y)
    \/ \E x \in X, y \in X, e \in Versions : RetireGeneration(x, y, e)
    \/ \E x \in X : \E loc \in Locs(cfg[x]) : \E v \in {0, 1} : SetAntiQuorum(x, loc, v)
    \/ \E x \in X : \E loc \in Locs(cfg[x]) : \E v \in {0, 1} :
            SetReplicationFactor(x, loc, v)
    \/ \E x \in X : \E loc \in Locs(cfg[x]) : \E v \in BOOLEAN : SetIsLocal(x, loc, v)
    \/ \E x \in X : \E loc \in Locs(cfg[x]) :
            \E v \in {HasBestPolicyNone, HasBestPolicyId} : SetHasBestPolicy(x, loc, v)
    \/ \E x \in X : \E loc \in Locs(cfg[x]) : \E v \in {LocalityUnset, 0} :
            SetLocality(x, loc, v)
    \/ \E x \in X : \E loc \in Locs(cfg[x]) : \E p \in Infos : SetPolicy(x, loc, p)
    \/ \E x \in X : \E loc \in Locs(cfg[x]) : \E o \in OptionalInterfaces :
            PushTLog(x, loc, o)
    \/ \E x \in X : \E loc \in Locs(cfg[x]) :
            \E j \in 1..Len(SetAt(cfg[x], loc).tLogLocalities), l \in Localities :
                SetTLogLocality(x, loc, j, l)
    \/ \E x \in X : \E loc \in Locs(cfg[x]) : \E o \in OptionalInterfaces :
            PushLogRouter(x, loc, o)

\* ------------------------------------------------- the const member functions

Call(r) ==
    /\ ret = NoCall
    /\ ret' = r
    /\ UNCHANGED <<cfg, steps, oi, ar>>

Call_isEqual == Call([op |-> "isEqual", val |-> LogSystemConfig_Eq(cfg["n"], cfg["r"])])
Call_isEqualIds == Call([op |-> "isEqualIds", val |-> isEqualIds(cfg["n"], cfg["r"])])
Call_isNextGenerationOf ==
    Call([op |-> "isNextGenerationOf", val |-> isNextGenerationOf(cfg["n"], cfg["r"])])
Call_allPresentLogs == Call([op |-> "allPresentLogs", val |-> allPresentLogs(cfg["n"])])
Call_allSharedLogs(validating) ==
    LET res == allSharedLogs(cfg["n"], validating)
    IN  Call([op |-> "allSharedLogs", validating |-> validating,
              threw |-> res.threw, val |-> res.val])
Call_serialize == Call([op |-> "serialize", val |-> LogSystemConfig_serialize(cfg["n"])])

Next ==
    \/ Build({"n", "r"})
    \/ Call_isEqual
    \/ Call_isEqualIds
    \/ Call_isNextGenerationOf
    \/ Call_allPresentLogs
    \/ \E validating \in BOOLEAN : Call_allSharedLogs(validating)
    \/ Call_serialize

Spec == Init /\ [][Next]_vars

\* n == r, r == q and n == q evaluated together
Call_compare ==
    Call([op |-> "compare",
          nr |-> LogSystemConfig_Eq(cfg["n"], cfg["r"]),
          rq |-> LogSystemConfig_Eq(cfg["r"], cfg["q"]),
          nq |-> LogSystemConfig_Eq(cfg["n"], cfg["q"])])

NextEq ==
    \/ Build(Cfgs)
    \/ Call_compare

SpecEq == Init /\ [][NextEq]_vars

\* ------------------------------------- OptionalInterface and its archive

\* OptionalInterface objects the archive holds
objectsIn(a) == Cardinality({k \in 1..Len(a) : a[k][1] = "iface"})

OI_ConstructFromUID(u) ==
    /\ oi' = OptionalInterface_FromUID(u)
    /\ ret' = NoCall
    /\ UNCHANGED <<cfg, steps, ar>>

OI_ConstructFromInterface(i) ==
    /\ oi' = OptionalInterface_FromInterface(i)
    /\ ret' = NoCall
    /\ UNCHANGED <<cfg, steps, ar>>

OI_ConstructDefault ==
    /\ oi' = OptionalInterface_Default
    /\ ret' = NoCall
    /\ UNCHANGED <<cfg, steps, ar>>

OI_SerializeWrite ==
    /\ objectsIn(ar) < MaxArchive
    /\ LET w == OptionalInterface_serializeWrite(oi, ar)
       IN  /\ oi' = w.obj
           /\ ar' = w.arch
    /\ ret' = NoCall
    /\ UNCHANGED <<cfg, steps>>

OI_SerializeRead ==
    /\ ar # <<>>
    /\ LET rd == OptionalInterface_serializeRead(oi, ar)
       IN  /\ oi' = rd.obj
           /\ ar' = rd.arch
           /\ ret' = [op |-> "serializeRead", before |-> oi.ident,
                      input |-> SubSeq(ar, 1, Len(ar) - Len(rd.arch))]
    /\ UNCHANGED <<cfg, steps>>

NextOI ==
    \/ \E u \in UIDs : OI_ConstructFromUID(u)
    \/ \E i \in TLogInterfaces : OI_ConstructFromInterface(i)
    \/ OI_ConstructDefault
    \/ OI_SerializeWrite
    \/ OI_SerializeRead

SpecOI == Init /\ [][NextOI]_vars

\* ================================================================== claims

cN == cfg["n"]
cR == cfg["r"]
cQ == cfg["q"]

SeqRange(s) == {s[k] : k \in 1..Len(s)}

\* every TLogSet of a configuration, live or old
SetsOf(c) ==
    SeqRange(c.tLogs) \cup UNION {SeqRange(c.oldTLogs[h].tLogs) : h \in 1..Len(c.oldTLogs)}

AllSets == UNION {SetsOf(cfg[x]) : x \in Cfgs}
AllOld == UNION {SeqRange(cfg[x].oldTLogs) : x \in Cfgs}

\* ---- C1
\* C1: n.isNextGenerationOf(r) is true exactly when n.oldTLogs is non-empty and
\* some TLogSet of r.tLogs isEqualIds some TLogSet of n.oldTLogs[0].tLogs; the
\* older entries of n.oldTLogs play no part.
C1_isNextGenerationOf ==
    ret.op = "isNextGenerationOf" =>
        ret.val = (/\ cN.oldTLogs # <<>>
                   /\ \E g \in SeqRange(cR.tLogs) :
                        \E h \in SeqRange(cN.oldTLogs[1].tLogs) : TLogSet_isEqualIds(g, h))

C1_Witness ==
    /\ ret.op = "isNextGenerationOf"
    /\ ret.val
    /\ Len(cN.oldTLogs) = 2

\* ---- C2
\* C2: n.isEqualIds(r) is true exactly when some TLogSet of r.tLogs isEqualIds
\* some TLogSet of n.tLogs; nothing else of the two configurations is read.
C2_isEqualIds ==
    ret.op = "isEqualIds" =>
        ret.val = (\E g \in SeqRange(cR.tLogs) :
                     \E h \in SeqRange(cN.tLogs) : TLogSet_isEqualIds(g, h))

C2_Witness ==
    /\ ret.op = "isEqualIds"
    /\ ret.val
    /\ Len(cN.tLogs) # Len(cR.tLogs)

\* ---- C3
C3Structural(g, h) ==
    /\ g.tLogWriteAntiQuorum = h.tLogWriteAntiQuorum
    /\ g.tLogReplicationFactor = h.tLogReplicationFactor
    /\ g.isLocal = h.isLocal
    /\ g.hasBestPolicy = h.hasBestPolicy
    /\ g.locality = h.locality
    /\ Len(g.tLogs) = Len(h.tLogs)
    /\ g.tLogPolicy = h.tLogPolicy
    /\ \A k \in 1..Len(g.tLogs) :
        /\ g.tLogs[k].ident = h.tLogs[k].ident
        /\ (g.tLogs[k].iface = <<>>) = (h.tLogs[k].iface = <<>>)
        /\ g.tLogs[k].iface # <<>> => g.tLogs[k].iface[1].token = h.tLogs[k].iface[1].token

C4SetsAndOld ==
    /\ \A g \in AllSets : \A h \in AllSets :
            TLogSet_Eq(g, h) => TLogSet_isEqualIds(g, h)
    /\ \A a \in AllOld : \A b \in AllOld :
            OldTLogConf_Eq(a, b) => OldTLogConf_isEqualIds(a, b)

\* C4 as claimed: a == b implies a.isEqualIds(b) for TLogSet, OldTLogConf and
\* LogSystemConfig.
C4_Original ==
    /\ C4SetsAndOld
    /\ \A x \in Cfgs : \A y \in Cfgs :
            LogSystemConfig_Eq(cfg[x], cfg[y]) => isEqualIds(cfg[x], cfg[y])

\* C4 as amended: a == b implies a.isEqualIds(b) for TLogSet and OldTLogConf,
\* and for LogSystemConfig when a.tLogs is not empty.
C4_Coarsening ==
    /\ C4SetsAndOld
    /\ \A x \in Cfgs : \A y \in Cfgs :
            (LogSystemConfig_Eq(cfg[x], cfg[y]) /\ cfg[x].tLogs # <<>>)
                => isEqualIds(cfg[x], cfg[y])

C4_Witness ==
    /\ cN # cR
    /\ cN.tLogs # <<>>
    /\ LogSystemConfig_Eq(cN, cR)
    /\ isEqualIds(cN, cR)

C6Pairs(c) ==
    {<<o.iface[1].sharedTLogID, o.iface[1].address>> :
        o \in {s \in UNION {SeqRange(g.tLogs) : g \in SetsOf(c)} : s.iface # <<>>}}

C6Collision(c) == \E a \in C6Pairs(c) : \E b \in C6Pairs(c) : a[1] = b[1] /\ a[2] # b[2]

C6OneEntryPerId(s) == \A i \in 1..Len(s) : \A j \in 1..Len(s) : i # j => s[i][1] # s[j][1]

C6IsThePairSet(s, c) ==
    /\ SeqRange(s) = C6Pairs(c)
    /\ Len(s) = Cardinality(C6Pairs(c))

C7Positions(c) ==
    {p \in UNION {{<<i, j>> : j \in 1..Len(c.tLogs[i].tLogs)} : i \in 1..Len(c.tLogs)} :
        c.tLogs[p[1]].tLogs[p[2]].iface # <<>>}

C7Before(a, b) == a[1] < b[1] \/ (a[1] = b[1] /\ a[2] < b[2])

C7Rank(c, p) == 1 + Cardinality({b \in C7Positions(c) : C7Before(b, p)})

C7Total(c) == Cardinality(UNION {{<<i, j>> : j \in 1..Len(c.tLogs[i].tLogs)} : i \in 1..Len(c.tLogs)})

C8_IdentFromInterface ==
    /\ present(oi) => id(oi) = TLogInterface_id(interf(oi))
    /\ ret.op = "serializeRead" =>
          IF ret.input[1][2] # <<>>
          THEN /\ oi.iface = ret.input[1][2]
               /\ oi.ident = ret.input[1][2][1].uniqueID
          ELSE /\ oi.iface = <<>>
               /\ oi.ident = ret.input[2][2]

C8_Witness ==
    /\ ret.op = "serializeRead"
    /\ present(oi)
    /\ ret.before # oi.ident

\* ---- C9
C9Names(a) == [k \in 1..Len(a) |-> a[k][1]]

C9Member(a, name) == a[CHOOSE k \in 1..Len(a) : a[k][1] = name][2]

C9OldArchives(a) == SeqRange(C9Member(a, "oldTLogs"))

C9SetArchives(a) ==
    SeqRange(C9Member(a, "tLogs"))
        \cup UNION {SeqRange(C9Member(o, "tLogs")) : o \in C9OldArchives(a)}

\* C9 as claimed: the members are streamed in the order of the data model.
C9_Original ==
    ret.op = "serialize" =>
        /\ C9Names(ret.val) =
              <<"logSystemType", "tLogs", "oldTLogs", "expectedLogSets", "minRouters">>
        /\ \A o \in C9OldArchives(ret.val) : C9Names(o) = <<"tLogs", "epochEnd">>
        /\ \A g \in C9SetArchives(ret.val) :
              C9Names(g) = <<"tLogs", "logRouters", "tLogWriteAntiQuorum",
                             "tLogReplicationFactor", "tLogLocalities", "tLogPolicy",
                             "locality", "isLocal", "hasBestPolicy">>

\* C9 as amended: the members are streamed in the order serialize() names
\* them: the policy before the localities and locality last in a TLogSet,
\* minRouters before expectedLogSets in a LogSystemConfig.
C9_serializeOrder ==
    ret.op = "serialize" =>
        /\ C9Names(ret.val) =
              <<"logSystemType", "tLogs", "oldTLogs", "minRouters", "expectedLogSets">>
        /\ \A o \in C9OldArchives(ret.val) : C9Names(o) = <<"tLogs", "epochEnd">>
        /\ \A g \in C9SetArchives(ret.val) :
              C9Names(g) = <<"tLogs", "logRouters", "tLogWriteAntiQuorum",
                             "tLogReplicationFactor", "tLogPolicy", "tLogLocalities",
                             "isLocal", "hasBestPolicy", "locality">>

C9_Witness ==
    /\ ret.op = "serialize"
    /\ C9Member(ret.val, "tLogs") # <<>>
    /\ \E o \in C9OldArchives(ret.val) : C9Member(o, "tLogs") # <<>>

\* ---- C10
\* x holds y's live generation as oldTLogs[0]
C10Retired(x, y) ==
    /\ cfg[x].oldTLogs # <<>>
    /\ cfg[x].oldTLogs[1].tLogs = cfg[y].tLogs

\* C10 as claimed: a configuration that holds r's live generation as
\* oldTLogs[0] isNextGenerationOf r.
C10_Original ==
    \A x \in Cfgs : \A y \in Cfgs :
        C10Retired(x, y) => isNextGenerationOf(cfg[x], cfg[y])

\* C10 as amended: the same, for an r that has at least one live TLogSet.
C10_Lineage ==
    \A x \in Cfgs : \A y \in Cfgs :
        (C10Retired(x, y) /\ cfg[y].tLogs # <<>>) => isNextGenerationOf(cfg[x], cfg[y])

C10_Witness ==
    /\ C10Retired("n", "r")
    /\ cR.tLogs # <<>>
    /\ cN.tLogs # <<>>
    /\ ret.op = "isNextGenerationOf"
    /\ ret.val

====
